---- MODULE Spec2Model ----
(***************************************************************************)
(* The agent session orchestrator of pyfiles/agents/agent.py: the mode     *)
(* resolver (_update_current_state), the tag separator                     *)
(* (_separate_ai_messages), the response stream assembler                  *)
(* (_astream_response), the persistence write (_update_thread_history)     *)
(* and the entry point aget_agent_response, over the persisted thread      *)
(* store (SQLite documents table) and the agent's checkpoint.              *)
(*                                                                         *)
(* A string is a sequence of tokens.  The two marker tags, the newline and *)
(* the blank are tokens of their own; every other token is plain text.     *)
(***************************************************************************)
EXTENDS Integers, Sequences, FiniteSets, TLC

\* ------------------------------------------------------------------ bounds
\* Longest persisted transcript a behaviour starts from.
MaxInitLen == 12
\* Calls of aget_agent_response per behaviour.
MaxRuns == 1
\* Messages the agent engine generates per behaviour (over all its runs).
MaxMsgs == 2
\* Longest text (in tokens) given to the tag separator.
MaxLen == 5

\* ------------------------------------------------------- program constants
\* agent.py:343  if counting_messages == 10: break
MaxHistory == 10

\* ------------------------------------------------------------------ tokens
OpenTag  == "<think>"
CloseTag == "</think>"
NL       == "\n"
SP       == " "
\* str.strip() and the regex class \s: the whitespace tokens.
Whitespace == {NL, SP}

\* ------------------------------------------------------------ sequences
\* list(reversed(xs))
Reverse(s) == [i \in 1..Len(s) |-> s[Len(s) + 1 - i]]

\* Python's xs[:k] for an int k (a negative k counts from the end).
PySlicePrefix(s, k) ==
    IF k >= 0 THEN SubSeq(s, 1, IF k < Len(s) THEN k ELSE Len(s))
    ELSE SubSeq(s, 1, IF Len(s) + k > 0 THEN Len(s) + k ELSE 0)

\* An Optional[int] is the empty set (None) or a singleton; xs[:None] is xs.
None == {}
Some(k) == {k}
PySlicePrefixOpt(s, ko) ==
    IF ko = None THEN s ELSE PySlicePrefix(s, CHOOSE k \in ko : TRUE)

\* Python's xs[k:] for k >= 0.
PySliceSuffix(s, k) == SubSeq(s, k + 1, Len(s))

\* The least element of a non-empty set of integers.
Min(S) == CHOOSE x \in S : \A y \in S : x <= y

\* str.strip(): leading and trailing whitespace removed.
Strip(s) ==
    LET keep == {i \in 1..Len(s) : s[i] \notin Whitespace}
    IN  IF keep = {} THEN <<>>
        ELSE SubSeq(s, Min(keep), CHOOSE j \in keep : \A k \in keep : k <= j)

\* ----------------------------------------------------------- tag separator
\* re.search(r'<think>(.*?)</think>', text, DOTALL): the leftmost opener that
\* has a closer after it, and the nearest such closer; <<0, 0>> when none.
SearchClosed(text, from) ==
    LET opens == {i \in from..Len(text) :
                     /\ text[i] = OpenTag
                     /\ \E j \in (i + 1)..Len(text) : text[j] = CloseTag}
    IN  IF opens = {} THEN <<0, 0>>
        ELSE LET i == Min(opens)
             IN  <<i, Min({j \in (i + 1)..Len(text) : text[j] = CloseTag})>>

\* re.sub(r'\s*<think>.*?</think>\s*', '', text, DOTALL), scanning from from:
\* each closed block goes together with the whitespace that touches it.
RECURSIVE SubClosed(_, _)
SubClosed(text, from) ==
    LET m == SearchClosed(text, from)
    IN  IF m[1] = 0 THEN SubSeq(text, from, Len(text))
        ELSE LET \* \s* before the opener: the whitespace run that ends at it
                 lead == {p \in from..m[1] :
                             \A q \in p..(m[1] - 1) : text[q] \in Whitespace}
                 start == Min(lead)
                 \* \s* after the closer: the whitespace run that follows it
                 trail == {p \in (m[2] + 1)..(Len(text) + 1) :
                              \A q \in (m[2] + 1)..(p - 1) : text[q] \in Whitespace}
                 stop == CHOOSE p \in trail : \A q \in trail : q <= p
             IN  SubSeq(text, from, start - 1) \o SubClosed(text, stop)

\* Mutant of SplitFirstNewline: the newline is not looked for.
SplitNever(s) == <<s>>

\* str.split('\n', 1): <<line>> without a newline, else <<first, rest>>.
SplitFirstNewline(s) ==
    LET nls == {i \in 1..Len(s) : s[i] = NL}
    IN  IF nls = {} THEN <<s>>
        ELSE <<SubSeq(s, 1, Min(nls) - 1), SubSeq(s, Min(nls) + 1, Len(s))>>

\* Mutant of separate_ai_messages: a text without an opener is trimmed too.
separate_ai_messagesTrimmed(text) ==
    LET m == SearchClosed(text, 1)
    IN  IF m[1] # 0
        THEN <<Strip(SubSeq(text, m[1] + 1, m[2] - 1)), Strip(SubClosed(text, 1))>>
        ELSE LET opens == {i \in 1..Len(text) : text[i] = OpenTag}
             IN  IF opens # {}
                 THEN LET inside_content == Strip(SubSeq(text, Min(opens) + 1, Len(text)))
                          lines == SplitFirstNewline(inside_content)
                      IN  IF Len(lines) > 1
                          THEN <<Strip(lines[1]), Strip(lines[2])>>
                          ELSE <<(<<>>), Strip(inside_content)>>
                 ELSE <<(<<>>), Strip(text)>>

\* Agent._separate_ai_messages for a text that is not None:
\* <<inside_tags, outside_tags>>.
separate_ai_messages(text) ==
    LET m == SearchClosed(text, 1)
    IN  IF m[1] # 0
        THEN <<Strip(SubSeq(text, m[1] + 1, m[2] - 1)), Strip(SubClosed(text, 1))>>
        ELSE LET opens == {i \in 1..Len(text) : text[i] = OpenTag}
             IN  IF opens # {}
                 THEN LET inside_content == Strip(SubSeq(text, Min(opens) + 1, Len(text)))
                          lines == SplitFirstNewline(inside_content)
                      IN  IF Len(lines) > 1
                          THEN <<Strip(lines[1]), Strip(lines[2])>>
                          ELSE <<(<<>>), Strip(inside_content)>>
                 ELSE <<(<<>>), text>>

\* --------------------------------------------------------------- messages
\* A metadata map is the set of its <<key, value>> pairs.
UserMeta      == {<<"title", "User Message">>}
ThinkingMeta  == {<<"title", "Assistant Thinking...">>, <<"status", "done">>}
AssistantMeta == {<<"title", "Assistant Message">>}
ToolMeta      == {<<"title", "Tool call output">>, <<"status", "done">>}

\* One entry of a transcript in its wire shape (a dict of the JSON content).
Entry(role, content, metadata) ==
    [role |-> role, content |-> content, metadata |-> metadata]

\* langchain's typed messages; name is the tool's name of a ToolMessage.
HumanMessage(content, response_metadata) ==
    [type |-> "human", content |-> content,
     response_metadata |-> response_metadata, name |-> ""]
AIMessage(content, response_metadata) ==
    [type |-> "ai", content |-> content,
     response_metadata |-> response_metadata, name |-> ""]
ToolMessage(content, name) ==
    [type |-> "tool", content |-> content, response_metadata |-> {}, name |-> name]

\* Mutants of CapReached: the scan stops one message early, or one late.
CapReachedEarly(counting_messages) == counting_messages = MaxHistory - 1
CapReachedLate(counting_messages) == counting_messages = MaxHistory + 1

\* agent.py:342-344: the scan of the reversed history stops at the cap.
CapReached(counting_messages) == counting_messages = MaxHistory

\* agent.py:324-344: the loop over the reversed history.  Every message is
\* counted; only user and assistant dicts are converted.
RECURSIVE ConvertLoop(_, _, _, _)
ConvertLoop(existing_convo, i, counting_messages, converted_convo) ==
    IF i > Len(existing_convo) THEN converted_convo
    ELSE LET msg == existing_convo[i]
             conv == IF msg.role = "user"
                     THEN Append(converted_convo, HumanMessage(msg.content, msg.metadata))
                     ELSE IF msg.role = "assistant"
                     THEN Append(converted_convo, AIMessage(msg.content, msg.metadata))
                     ELSE converted_convo
         IN  IF CapReached(counting_messages + 1) THEN conv
             ELSE ConvertLoop(existing_convo, i + 1, counting_messages + 1, conv)

\* agent.py:319-346: reverse, convert at most the cap, reverse back.
LoadHistory(content) == Reverse(ConvertLoop(Reverse(content), 1, 0, <<>>))

\* Mutant of LatestIndex: the first HumanMessage is taken, not the last.
LatestIndexFirst(converted_convo) ==
    LET users == {i \in 1..Len(converted_convo) : converted_convo[i].type = "human"}
    IN  IF users = {} THEN None ELSE Some(Min(users) - 1)

\* agent.py:354-357: the index (0-based) of the last HumanMessage, or None.
LatestIndex(converted_convo) ==
    LET users == {i \in 1..Len(converted_convo) : converted_convo[i].type = "human"}
    IN  IF users = {} THEN None
        ELSE Some((CHOOSE i \in users : \A j \in users : j <= i) - 1)

\* agent.py:380-394: the typed messages back in the wire shape.
ToTranscript(converted_convo) ==
    LET keep == SelectSeq(converted_convo, LAMBDA m : m.type \in {"human", "ai"})
    IN  [i \in 1..Len(keep) |->
            Entry(IF keep[i].type = "human" THEN "user" ELSE "assistant",
                  keep[i].content, keep[i].response_metadata)]

\* agent.py:396-401: the echoed user entry of a non-empty query.
UserEntry(query) == Entry("user", query, UserMeta)

\* The edit payload (EditData): absent, or an index and a value.
NoEdit == [present |-> FALSE, index |-> 0, value |-> <<>>]
EditData(index, value) == [present |-> TRUE, index |-> index, value |-> value]

\* Mutant of RetryUndo: the last user message itself is kept.
RetryUndoKeepsUser(query, mode, converted_convo) ==
    LET latest_index == LatestIndex(converted_convo)
    IN  [query |-> IF mode = "retry"
                   THEN IF latest_index # None
                        THEN converted_convo[(CHOOSE k \in latest_index : TRUE) + 1].content
                        ELSE query
                   ELSE <<>>,
         convo |-> IF latest_index = None THEN converted_convo
                   ELSE PySlicePrefix(converted_convo,
                                      (CHOOSE k \in latest_index : TRUE) + 1)]

\* agent.py:352-365: retry and undo.
RetryUndo(query, mode, converted_convo) ==
    LET latest_index == LatestIndex(converted_convo)
    IN  [query |-> IF mode = "retry"
                   THEN IF latest_index # None
                        THEN converted_convo[(CHOOSE k \in latest_index : TRUE) + 1].content
                        ELSE query
                   ELSE <<>>,
         convo |-> PySlicePrefixOpt(converted_convo, latest_index)]

\* Mutant of EditConvo: the edited entry itself is kept.
EditConvoKeepsEdited(query, edit_data, converted_convo) ==
    IF edit_data.present
    THEN [query |-> edit_data.value,
          convo |-> PySlicePrefix(converted_convo, edit_data.index + 1)]
    ELSE [query |-> query, convo |-> converted_convo]

\* agent.py:368-374: edit.
EditConvo(query, edit_data, converted_convo) ==
    IF edit_data.present
    THEN [query |-> edit_data.value,
          convo |-> PySlicePrefix(converted_convo, edit_data.index)]
    ELSE [query |-> query, convo |-> converted_convo]

\* agent.py:377: the modes that load the history into the agent's memory.
UpdatesAgentState(mode) == mode \in {"retry", "edit", "main"}

\* The checkpoint of a thread (agent.py:263-269): absent (get returns None) or
\* the message list the engine remembers.
NoCheckpoint == [present |-> FALSE, messages |-> <<>>]
\* agent.py:378  self.agent.update_state(config, {"messages": converted_convo}):
\* the agent's memory is loaded with the history (agent.py:14-15, 70-71).
update_state(checkpoint, messages) == [present |-> TRUE, messages |-> messages]

\* Mutant of update_current_state: the checkpoint is written whether or not
\* a history was loaded.
update_current_stateSyncsAlways(query, thread, mode, edit_data, checkpoint) ==
    LET loaded == LoadHistory(thread.content)
        moded  == IF loaded = <<>> THEN [query |-> query, convo |-> loaded]
                  ELSE IF mode \in {"retry", "undo"} THEN RetryUndo(query, mode, loaded)
                  ELSE IF mode = "edit" THEN EditConvo(query, edit_data, loaded)
                  ELSE [query |-> query, convo |-> loaded]
        synced == UpdatesAgentState(mode)
    IN  [query      |-> moded.query,
         transcript |-> ToTranscript(moded.convo) \o
                        (IF moded.query # <<>> THEN <<UserEntry(moded.query)>> ELSE <<>>),
         source     |-> thread.source,
         group      |-> thread.group,
         convo      |-> moded.convo,
         synced     |-> synced,
         checkpoint |-> IF synced THEN update_state(checkpoint, moded.convo)
                        ELSE checkpoint]

\* Agent._update_current_state (agent.py:311-407) for a thread that has a
\* persisted record: the returned tuple, and the checkpoint it leaves.
update_current_state(query, thread, mode, edit_data, checkpoint) ==
    LET loaded == LoadHistory(thread.content)
        moded  == IF loaded = <<>> THEN [query |-> query, convo |-> loaded]
                  ELSE IF mode \in {"retry", "undo"} THEN RetryUndo(query, mode, loaded)
                  ELSE IF mode = "edit" THEN EditConvo(query, edit_data, loaded)
                  ELSE [query |-> query, convo |-> loaded]
        synced == loaded # <<>> /\ UpdatesAgentState(mode)
    IN  [query      |-> moded.query,
         transcript |-> ToTranscript(moded.convo) \o
                        (IF moded.query # <<>> THEN <<UserEntry(moded.query)>> ELSE <<>>),
         source     |-> thread.source,
         group      |-> thread.group,
         convo      |-> moded.convo,
         synced     |-> synced,
         checkpoint |-> IF synced THEN update_state(checkpoint, moded.convo)
                        ELSE checkpoint]

\* --------------------------------------------------- stream assembler
\* Mutant of msg_hash: the tool's name is part of the fingerprint.
msg_hashWithName(content_part) ==
    <<content_part.type, content_part.content, content_part.name>>

\* agent.py:469  hash((type(content_part), content_part.content)); the hash
\* is taken as collision-free.
msg_hash(content_part) == <<content_part.type, content_part.content>>

\* Mutant of AlreadyProcessed: no fingerprint is ever found in the set.
AlreadyProcessedNever(h, processed_hashes) == FALSE

\* agent.py:470  if msg_hash in processed_hashes: continue
AlreadyProcessed(h, processed_hashes) == h \in processed_hashes

\* Mutant of valid_new_messages: the baseline count is not applied.
valid_new_messagesFromStart(current_messages, existing_messages_count, human_content) ==
    SelectSeq(current_messages,
              LAMBDA m : ~(m.type = "human" /\ m.content = human_content))

\* agent.py:461-465: the messages beyond the baseline, without the echo of
\* the submitted query.
valid_new_messages(current_messages, existing_messages_count, human_content) ==
    SelectSeq(PySliceSuffix(current_messages, existing_messages_count),
              LAMBDA m : ~(m.type = "human" /\ m.content = human_content))

\* Mutant of ToolEntry: the entry of a tool message has role tool.
ToolEntryAsTool(name, content) ==
    Entry("tool",
          <<NL, "Content from", name, "toolcall:", NL>> \o content, ToolMeta)

\* agent.py:481-485, 490-494, 499-506: the entries the assembler appends.
ThinkingEntry(inside_tags)   == Entry("assistant", inside_tags, ThinkingMeta)
AssistantEntry(outside_tags) == Entry("assistant", outside_tags, AssistantMeta)
ToolEntry(name, content) ==
    Entry("assistant",
          <<NL, "Content from", name, "toolcall:", NL>> \o content, ToolMeta)

\* Mutant of AppendYield: the yield carries the new entry alone.
AppendYieldDelta(rr, entry, h) ==
    [rr EXCEPT !.transcript = Append(@, entry),
               !.yields     = Append(@, <<entry>>),
               !.emitted    = Append(@, entry),
               !.origins    = Append(@, h),
               !.pc         = "yielded"]

\* Mutant of AppendYield: the entry is put at the front of the transcript.
AppendYieldFront(rr, entry, h) ==
    [rr EXCEPT !.transcript = <<entry>> \o @,
               !.yields     = Append(@, <<entry>> \o rr.transcript),
               !.emitted    = Append(@, entry),
               !.origins    = Append(@, h),
               !.pc         = "yielded"]

\* transcript.append(entry); yield transcript -- on the run record rr, the
\* entry coming from the message with fingerprint h.
AppendYield(rr, entry, h) ==
    [rr EXCEPT !.transcript = Append(@, entry),
               !.yields     = Append(@, Append(rr.transcript, entry)),
               !.emitted    = Append(@, entry),
               !.origins    = Append(@, h),
               !.pc         = "yielded"]

\* The assembler from one suspension to the next (agent.py:467-507): it goes
\* through the step's valid new messages until an entry is yielded, or until
\* the step is exhausted and the next step is awaited.
RECURSIVE Scan(_), OutsidePart(_)
Scan(rr) ==
    LET valid == valid_new_messages(rr.step, rr.baseline, rr.query)
    IN  IF rr.idx > Len(valid) THEN [rr EXCEPT !.pc = "step"]
        ELSE LET content_part == valid[rr.idx]
                 h == msg_hash(content_part)
             IN  IF AlreadyProcessed(h, rr.processed)
                 THEN Scan([rr EXCEPT !.idx = @ + 1])
                 ELSE LET r1 == [rr EXCEPT !.processed = @ \cup {h},
                                           !.procLog = Append(@, h)]
                      IN  IF content_part.type = "ai"
                          THEN LET inside_tags == separate_ai_messages(content_part.content)[1]
                               IN  IF inside_tags # <<>>
                                   THEN [AppendYield(r1, ThinkingEntry(inside_tags), h)
                                            EXCEPT !.pending = TRUE]
                                   ELSE OutsidePart(r1)
                          ELSE IF content_part.type = "tool"
                          THEN [AppendYield(r1, ToolEntry(content_part.name,
                                                          content_part.content), h)
                                   EXCEPT !.idx = @ + 1]
                          ELSE Scan([r1 EXCEPT !.idx = @ + 1])

\* agent.py:488-495: the final-answer part of the assistant message at idx.
OutsidePart(rr) ==
    LET valid == valid_new_messages(rr.step, rr.baseline, rr.query)
        content_part == valid[rr.idx]
        outside_tags == separate_ai_messages(content_part.content)[2]
        r1 == [rr EXCEPT !.pending = FALSE]
    IN  IF outside_tags # <<>>
        THEN [AppendYield(r1, AssistantEntry(outside_tags), msg_hash(content_part))
                 EXCEPT !.idx = @ + 1]
        ELSE Scan([r1 EXCEPT !.idx = @ + 1])

\* ------------------------------------------------------------ the store
\* threads.py:142-146 / sqlite.py:118-121: one document per thread id.
NoRecord == [present |-> FALSE, content |-> <<>>, source |-> "", group |-> ""]
ThreadRecord(content, source, group) ==
    [present |-> TRUE, content |-> content, source |-> source, group |-> group]

\* Mutant of insert_documents: the new content is added to the old.
insert_documentsAppend(record, content, metadata) ==
    ThreadRecord(record.content \o content, metadata.source, metadata.group)

\* sqlite.py:116-122  INSERT OR REPLACE INTO documents (id, content, metadata)
insert_documents(record, content, metadata) ==
    ThreadRecord(content, metadata.source, metadata.group)

\* agent.py:538-546: the document written for the thread.
update_thread_history(record, transcript, group, source) ==
    insert_documents(record, transcript, [group |-> group, source |-> source])

\* ------------------------------------------------------------- inputs
\* Thread ids: t1 and t2 have a persisted record, t0 has none.
ThreadIds == {"t1", "t2", "t0"}
\* What the caller types: nothing, or a message.
Queries   == {<<>>, <<"hi">>}
\* The edit payload of an edit call: missing, or the index of the edited entry
\* and its new value (the message may be edited to the empty text).
EditIndexes == {0, 2, MaxInitLen - 1}
EditInputs  ==
    {NoEdit} \cup {EditData(i, <<"new">>) : i \in EditIndexes}
    \cup {EditData(2, <<>>)}
\* The calls made: <<mode, query, edit_data>>.  Only an edit call carries a
\* payload; the edit calls enumerated have text in the input box.
Calls ==
    ({"main", "retry", "undo"} \X Queries \X {NoEdit})
    \cup ({"edit"} \X {<<"hi">>} \X EditInputs)

\* What the agent engine may generate in one step: an assistant message
\* (with a closed reasoning block before its answer, or with empty content,
\* as a tool-calling message has) or a tool result.
AIContents == {<<OpenTag, "plan", CloseTag, SP, "ok">>, <<>>}
EngineMsgs == {AIMessage(c, {}) : c \in AIContents}
              \cup {ToolMessage(<<"res">>, n) : n \in {"search", "retrieve"}}

\* Persisted transcripts a behaviour may start from.  Entry i holds the text
\* of its position; the roles alternate from a user entry ("alt"), or only the
\* first entry is the user's and the turn's entries follow it ("one").
InitEntry(pattern, i) ==
    IF (pattern = "alt" /\ i % 2 = 1) \/ (pattern = "one" /\ i = 1)
    THEN Entry("user", <<ToString(i)>>, UserMeta)
    ELSE Entry("assistant", <<ToString(i)>>, AssistantMeta)
InitTranscript(pattern, n) == [i \in 1..n |-> InitEntry(pattern, i)]
InitLens == {0, 3, MaxInitLen}
InitTranscripts ==
    {InitTranscript("alt", n) : n \in InitLens}
    \cup {InitTranscript("one", MaxInitLen)}

\* The texts given to the tag separator: the token sequences of at most
\* MaxLen tokens over the two tags, the whitespace and two words.
Tokens == {OpenTag, CloseTag, NL, SP, "a", "b"}
RECURSIVE TextsOfLen(_)
TextsOfLen(n) ==
    IF n = 0 THEN {<<>>}
    ELSE {Append(t, k) : t \in TextsOfLen(n - 1), k \in Tokens}
Texts == UNION {TextsOfLen(n) : n \in 0..MaxLen}
\* The argument of a call: None, or a str.
TextArgs == {None} \cup {Some(t) : t \in Texts}

\* A direct call of _separate_ai_messages: not made yet, returned the pair
\* (inside_tags, outside_tags), or raised ValueError.
NotCalled == [state |-> "ready", inside |-> <<>>, outside |-> <<>>]
Returned(pair) == [state |-> "returned", inside |-> pair[1], outside |-> pair[2]]
RaisedValueError == [state |-> "raised", inside |-> <<>>, outside |-> <<>>]

\* -------------------------------------------------------------- state
VARIABLES
    store,      \* thread id -> the persisted record of the thread
    ws,         \* thread id -> the agent's checkpoint of the thread
    run,        \* run slot -> the call of aget_agent_response in that slot
    started,    \* calls made so far
    produced,   \* messages the engine generated so far
    text,       \* the argument of a direct call of _separate_ai_messages
    sep         \* that call: not made yet, returned (with its pair), raised

vars == <<store, ws, run, started, produced, text, sep>>

RunIds == {1, 2}
\* Where a call is: not made yet (idle); about to resolve the mode (resolve);
\* the transcript returned and about to be yielded (view); suspended at the
\* first yield (stream); awaiting the engine's next step (step); suspended at
\* a yield of the assembler (yielded); awaiting the store's write (persist);
\* returned (done); raised (failed); closed by the caller (cancelled).
Terminal == {"idle", "done", "failed", "cancelled"}

\* What a call keeps of the call that ended before it in its slot: how it
\* ended, its mode and query, the record it found, the entries it added.
NoPrev ==
    [pc |-> "idle", mode |-> "main", callerQuery |-> <<>>, pre |-> NoRecord,
     added |-> <<>>]
PrevOf(rr) ==
    [pc |-> rr.pc, mode |-> rr.mode, callerQuery |-> rr.callerQuery,
     pre |-> rr.pre,
     added |-> (IF rr.query # <<>> THEN <<UserEntry(rr.query)>> ELSE <<>>)
               \o rr.emitted]

\* A call before its first step.  The fields from callerQuery on record what the
\* call did: the snapshots it yielded, its writes of the store, the record
\* and checkpoint it found, the resolver's result, the entries the assembler
\* appended with the fingerprint each came from, the fingerprints processed,
\* the engine invocations, the resolver's writes of the checkpoint, the call
\* before it.
NewRun(thread, mode, query, edit_data) ==
    [pc |-> "resolve", thread |-> thread, mode |-> mode, query |-> query,
     edit_data |-> edit_data, transcript |-> <<>>, source |-> "", group |-> "",
     baseline |-> 0, processed |-> {}, step |-> <<>>, idx |-> 1,
     pending |-> FALSE, engine |-> FALSE, resolved |-> FALSE,
     callerQuery |-> query, yields |-> <<>>, writes |-> 0,
     pre |-> store[thread], preWs |-> ws[thread], view |-> <<>>,
     emitted |-> <<>>, origins |-> <<>>, procLog |-> <<>>,
     calls |-> 0, syncs |-> 0, raised |-> FALSE, prev |-> NoPrev]

IdleRun ==
    [pc |-> "idle", thread |-> "t0", mode |-> "main", query |-> <<>>,
     edit_data |-> NoEdit, transcript |-> <<>>, source |-> "", group |-> "",
     baseline |-> 0, processed |-> {}, step |-> <<>>, idx |-> 1,
     pending |-> FALSE, engine |-> FALSE, resolved |-> FALSE,
     callerQuery |-> <<>>, yields |-> <<>>, writes |-> 0,
     pre |-> NoRecord, preWs |-> NoCheckpoint, view |-> <<>>,
     emitted |-> <<>>, origins |-> <<>>, procLog |-> <<>>,
     calls |-> 0, syncs |-> 0, raised |-> FALSE, prev |-> NoPrev]

Init ==
    /\ \E c \in InitTranscripts :
          store = [t \in ThreadIds |->
                      IF t = "t1" THEN ThreadRecord(c, "chat one", "cb_threads")
                      ELSE IF t = "t2"
                      THEN ThreadRecord(InitTranscript("alt", 2), "chat two", "cb_threads")
                      ELSE NoRecord]
    /\ ws = [t \in ThreadIds |-> NoCheckpoint]
    /\ run = [r \in RunIds |-> IdleRun]
    /\ started = 0
    /\ produced = 0
    /\ text = Some(<<>>)
    /\ sep = NotCalled

\* ------------------------------------------------------------- actions
\* The caller calls aget_agent_response(query, thread, mode, edit_data).
Start(r, thread, mode, query, edit_data) ==
    /\ run[r].pc \in Terminal
    /\ started < MaxRuns
    /\ run' = [run EXCEPT ![r] = NewRun(thread, mode, query, edit_data)]
    /\ started' = started + 1
    /\ UNCHANGED <<store, ws, produced, text, sep>>

\* Mutant of Resolve: a thread without a record is taken for an empty one.
ResolveMissingAsEmpty(r) ==
    LET rr == run[r]
        t  == rr.thread
        rec == IF store[t].present THEN store[t] ELSE ThreadRecord(<<>>, "", "")
        res == update_current_state(rr.query, rec, rr.mode, rr.edit_data, ws[t])
    IN  /\ rr.pc = "resolve"
        /\ run' = [run EXCEPT
                     ![r].pc = "view",
                     ![r].resolved = TRUE,
                     ![r].query = IF rr.mode = "main" THEN rr.query ELSE res.query,
                     ![r].transcript = res.transcript,
                     ![r].source = res.source,
                     ![r].group = res.group,
                     ![r].view = res.transcript,
                     ![r].syncs = IF res.synced THEN 1 ELSE 0]
        /\ ws' = [ws EXCEPT ![t] = res.checkpoint]
        /\ UNCHANGED <<store, started, produced, text, sep>>

\* agent.py:582-595: the mode resolver.  A thread without a record has no
\* 'source' key (agent.py:316-317) and the call raises.  The record and the
\* checkpoint the call found are the ones read here (agent.py:315, 377).
Resolve(r) ==
    LET rr == run[r]
        t  == rr.thread
    IN  /\ rr.pc = "resolve"
        /\ IF ~store[t].present
           THEN /\ run' = [run EXCEPT ![r].pc = "failed", ![r].raised = TRUE,
                                      ![r].pre = store[t], ![r].preWs = ws[t]]
                /\ UNCHANGED ws
           ELSE LET res == update_current_state(rr.query, store[t], rr.mode,
                                                rr.edit_data, ws[t])
                IN  /\ run' = [run EXCEPT
                                 ![r].pc = "view",
                                 ![r].resolved = TRUE,
                                 ![r].pre = store[t],
                                 ![r].preWs = ws[t],
                                 ![r].query = IF rr.mode = "main" THEN rr.query
                                              ELSE res.query,
                                 ![r].transcript = res.transcript,
                                 ![r].source = res.source,
                                 ![r].group = res.group,
                                 ![r].view = res.transcript,
                                 ![r].syncs = IF res.synced THEN 1 ELSE 0]
                    /\ ws' = [ws EXCEPT ![t] = res.checkpoint]
        /\ UNCHANGED <<store, started, produced, text, sep>>

\* Mutants of YieldView: the transcript is saved as soon as it is yielded; the
\* transcript is not yielded at all.
YieldViewSavesFirst(r) ==
    /\ run[r].pc = "view"
    /\ run' = [run EXCEPT ![r].pc = "stream",
                          ![r].yields = Append(@, run[r].transcript),
                          ![r].writes = @ + 1]
    /\ store' = [store EXCEPT ![run[r].thread] =
                    update_thread_history(@, run[r].transcript, run[r].group,
                                          run[r].source)]
    /\ UNCHANGED <<ws, started, produced, text, sep>>
YieldViewSkipped(r) ==
    /\ run[r].pc = "view"
    /\ run' = [run EXCEPT ![r].pc = "stream"]
    /\ UNCHANGED <<store, ws, started, produced, text, sep>>

\* agent.py:597  yield transcript
YieldView(r) ==
    /\ run[r].pc = "view"
    /\ run' = [run EXCEPT ![r].pc = "stream",
                          ![r].yields = Append(@, run[r].transcript)]
    /\ UNCHANGED <<store, ws, started, produced, text, sep>>

\* Mutant of StreamStart: the engine is invoked whatever the query.
StreamStartAlways(r) ==
    LET rr == run[r]
    IN  /\ rr.pc = "stream"
        /\ run' = [run EXCEPT
                      ![r].pc = "step",
                      ![r].baseline = IF ws[rr.thread].present
                                      THEN Len(ws[rr.thread].messages) ELSE 0,
                      ![r].processed = {},
                      ![r].calls = @ + 1]
        /\ UNCHANGED <<store, ws, started, produced, text, sep>>

\* agent.py:442-452: an empty query ends the assembler at once; otherwise the
\* baseline count is read from the checkpoint and the engine is invoked.
StreamStart(r) ==
    LET rr == run[r]
    IN  /\ rr.pc = "stream"
        /\ IF rr.query = <<>>
           THEN run' = [run EXCEPT ![r].pc = "persist"]
           ELSE run' = [run EXCEPT
                          ![r].pc = "step",
                          ![r].baseline = IF ws[rr.thread].present
                                          THEN Len(ws[rr.thread].messages) ELSE 0,
                          ![r].processed = {},
                          ![r].calls = @ + 1]
        /\ UNCHANGED <<store, ws, started, produced, text, sep>>

\* agent.py:454-458: the engine's next step.  Its first step adds the
\* submitted message to the thread's checkpointed messages; every later step
\* adds one generated message.  The step carries the cumulative list, which
\* the engine checkpoints, and the assembler runs until its next suspension.
EngineStep(r) ==
    LET rr == run[r]
        t  == rr.thread
    IN  /\ rr.pc = "step"
        /\ \E msg \in IF rr.engine THEN EngineMsgs ELSE {HumanMessage(rr.query, {})} :
              LET current_messages == IF rr.engine THEN Append(rr.step, msg)
                                      ELSE Append(ws[t].messages, msg)
              IN  /\ rr.engine => produced < MaxMsgs
                  /\ produced' = IF rr.engine THEN produced + 1 ELSE produced
                  /\ ws' = [ws EXCEPT ![t] = update_state(@, current_messages)]
                  /\ run' = [run EXCEPT ![r] =
                               Scan([rr EXCEPT !.engine = TRUE,
                                               !.step = current_messages,
                                               !.idx = 1])]
        /\ UNCHANGED <<store, started, text, sep>>

\* The caller asks for the next snapshot: the assembler resumes after its
\* yield (agent.py:486, 495, 507).
Resume(r) ==
    /\ run[r].pc = "yielded"
    /\ run' = [run EXCEPT ![r] = IF run[r].pending THEN OutsidePart(run[r])
                                 ELSE Scan(run[r])]
    /\ UNCHANGED <<store, ws, started, produced, text, sep>>

\* The engine's stream is exhausted: the assembler returns (agent.py:602-607).
EngineEnd(r) ==
    /\ run[r].pc = "step"
    /\ run[r].engine
    /\ run' = [run EXCEPT ![r].pc = "persist"]
    /\ UNCHANGED <<store, ws, started, produced, text, sep>>

\* Mutant of Persist: a call that added nothing does not write.
PersistOnlyAdded(r) ==
    LET rr == run[r]
        added == rr.query # <<>> \/ rr.emitted # <<>>
    IN  /\ rr.pc = "persist"
        /\ store' = [store EXCEPT ![rr.thread] =
                        IF added
                        THEN update_thread_history(@, rr.transcript, rr.group, rr.source)
                        ELSE @]
        /\ run' = [run EXCEPT ![r].pc = "done",
                              ![r].writes = IF added THEN @ + 1 ELSE @]
        /\ UNCHANGED <<ws, started, produced, text, sep>>

\* Mutant of Persist: the write replaces the record of every thread.
PersistEveryThread(r) ==
    LET rr == run[r]
    IN  /\ rr.pc = "persist"
        /\ store' = [t \in ThreadIds |->
                        IF store[t].present
                        THEN update_thread_history(store[t], rr.transcript,
                                                   rr.group, rr.source)
                        ELSE store[t]]
        /\ run' = [run EXCEPT ![r].pc = "done", ![r].writes = @ + 1]
        /\ UNCHANGED <<ws, started, produced, text, sep>>

\* agent.py:610-615: the transcript is written to the store.
Persist(r) ==
    LET rr == run[r]
    IN  /\ rr.pc = "persist"
        /\ store' = [store EXCEPT ![rr.thread] =
                        update_thread_history(@, rr.transcript, rr.group, rr.source)]
        /\ run' = [run EXCEPT ![r].pc = "done", ![r].writes = @ + 1]
        /\ UNCHANGED <<ws, started, produced, text, sep>>

\* Mutant of Fail: the transcript so far is saved on the way out.
FailSaves(r) ==
    /\ run[r].pc \in {"resolve", "step", "persist"}
    /\ run' = [run EXCEPT ![r].pc = "failed", ![r].raised = TRUE]
    /\ store' = [store EXCEPT ![run[r].thread] =
                    IF @.present
                    THEN update_thread_history(@, run[r].transcript, @.group, @.source)
                    ELSE @]
    /\ UNCHANGED <<ws, started, produced, text, sep>>

\* A collaborator raises where the call awaits it: the store's read
\* (agent.py:315), the engine (agent.py:454) or the store's write
\* (agent.py:546).  The error is logged and raised again (agent.py:616-618).
Fail(r) ==
    /\ run[r].pc \in {"resolve", "step", "persist"}
    /\ run' = [run EXCEPT ![r].pc = "failed", ![r].raised = TRUE]
    /\ UNCHANGED <<store, ws, started, produced, text, sep>>

\* The caller stops consuming at a yield and closes the generator.
Cancel(r) ==
    /\ run[r].pc \in {"stream", "yielded"}
    /\ run' = [run EXCEPT ![r].pc = "cancelled"]
    /\ UNCHANGED <<store, ws, started, produced, text, sep>>

\* ------------------------------------------------------ specifications
\* One call at a time: any call on the thread t1, and the calls with text
\* typed on the thread without a record.
SeqRuns   == {1}
SeqStarts ==
    ({"t1"} \X Calls)
    \cup ({"t0"} \X {c \in Calls : c[2] # <<>> /\ c[3].index = 0})

Next ==
    \E r \in SeqRuns :
        \/ \E s \in SeqStarts : Start(r, s[1], s[2][1], s[2][2], s[2][3])
        \/ Resolve(r)
        \/ YieldView(r)
        \/ StreamStart(r)
        \/ EngineStep(r)
        \/ Resume(r)
        \/ EngineEnd(r)
        \/ Persist(r)
        \/ Fail(r)
        \/ Cancel(r)

Spec == Init /\ [][Next]_vars

\* The caller makes a further call on a slot whose call has ended: it
\* returned, raised, or was closed at a yield (interface_chat.py:275, 324,
\* 370, 419 are callbacks of one chat window).
Again(r, thread, mode, query, edit_data) ==
    /\ run[r].pc \in {"done", "failed", "cancelled"}
    /\ started < MaxRuns + 1
    /\ run' = [run EXCEPT ![r] = [NewRun(thread, mode, query, edit_data)
                                    EXCEPT !.prev = PrevOf(run[r])]]
    /\ started' = started + 1
    /\ UNCHANGED <<store, ws, produced, text, sep>>

\* Calls that follow one another on the thread t1: a message sent, the last
\* turn undone, the last turn retried.
ResyncCalls ==
    {<<"main", <<"hi">>, NoEdit>>, <<"undo", <<>>, NoEdit>>,
     <<"retry", <<>>, NoEdit>>}

NextResync ==
    \E r \in SeqRuns :
        \/ \E c \in ResyncCalls : Start(r, "t1", c[1], c[2], c[3])
        \/ \E c \in ResyncCalls : Again(r, "t1", c[1], c[2], c[3])
        \/ Resolve(r)
        \/ YieldView(r)
        \/ StreamStart(r)
        \/ EngineStep(r)
        \/ Resume(r)
        \/ EngineEnd(r)
        \/ Persist(r)
        \/ Fail(r)
        \/ Cancel(r)

SpecResync == Init /\ [][NextResync]_vars

\* Calls in flight together.  Nothing in aget_agent_response serialises the
\* calls of one agent (agent.py:551-618 takes no lock), so the steps of two
\* calls interleave at their awaits and yields.  The overlapping calls are
\* <<slot, thread, mode, query>>: slot 1 sends a message on t1; slot 2 sends
\* another on t1 or on t2, or retries on t2.
ConcStarts ==
    {<<1, "t1", "main", <<"hi">>>>, <<2, "t1", "main", <<"yo">>>>,
     <<2, "t2", "main", <<"yo">>>>, <<2, "t2", "retry", <<>>>>}

\* Each slot makes one call.
Begin(r, thread, mode, query) ==
    /\ run[r].pc = "idle"
    /\ <<r, thread, mode, query>> \in ConcStarts
    /\ run' = [run EXCEPT ![r] = NewRun(thread, mode, query, NoEdit)]
    /\ started' = started + 1
    /\ UNCHANGED <<store, ws, produced, text, sep>>

\* Two threads with a short transcript each, no call made yet.
ConcStore ==
    [t \in ThreadIds |->
        IF t = "t1"
        THEN ThreadRecord(InitTranscript("alt", 3), "chat one", "cb_threads")
        ELSE IF t = "t2"
        THEN ThreadRecord(InitTranscript("alt", 2), "chat two", "cb_threads")
        ELSE NoRecord]
InitConc ==
    /\ store = ConcStore
    /\ ws = [t \in ThreadIds |-> NoCheckpoint]
    /\ run = [r \in RunIds |-> IdleRun]
    /\ started = 0
    /\ produced = 0
    /\ text = Some(<<>>)
    /\ sep = NotCalled

\* The calls run to their end: neither a failure nor a closed generator is
\* needed for two calls to overlap.
NextConc ==
    \E r \in RunIds :
        \/ \E c \in ConcStarts : Begin(r, c[2], c[3], c[4])
        \/ Resolve(r)
        \/ YieldView(r)
        \/ StreamStart(r)
        \/ EngineStep(r)
        \/ Resume(r)
        \/ EngineEnd(r)
        \/ Persist(r)

SpecConc == InitConc /\ [][NextConc]_vars

\* The tag separator called on its own: no thread exists and no call of
\* aget_agent_response is made; the argument is any of TextArgs.
InitSep ==
    /\ store = [t \in ThreadIds |-> NoRecord]
    /\ ws = [t \in ThreadIds |-> NoCheckpoint]
    /\ run = [r \in RunIds |-> IdleRun]
    /\ started = 0
    /\ produced = 0
    /\ text \in TextArgs
    /\ sep = NotCalled

\* Mutant of CallSeparate: None is taken for the empty text.
CallSeparateNoneAsEmpty ==
    /\ sep.state = "ready"
    /\ sep' = IF text = None THEN Returned(<<(<<>>), (<<>>)>>)
              ELSE Returned(separate_ai_messages(CHOOSE t \in text : TRUE))
    /\ UNCHANGED <<store, ws, run, started, produced, text>>

\* agent.py:188-236: None raises ValueError (agent.py:189-192); a str goes
\* through the separation and its pair is returned (agent.py:233).
CallSeparate ==
    /\ sep.state = "ready"
    /\ sep' = IF text = None THEN RaisedValueError
              ELSE Returned(separate_ai_messages(CHOOSE t \in text : TRUE))
    /\ UNCHANGED <<store, ws, run, started, produced, text>>

NextSep == CallSeparate

SpecSep == InitSep /\ [][NextSep]_vars

\* ------------------------------------------------------------ claims
\* The last n entries of a sequence (all of it when it is shorter).
LastN(s, n) == SubSeq(s, IF Len(s) > n THEN Len(s) - n + 1 ELSE 1, Len(s))

\* A snapshot is yielded by the call in slot r in this step.
Yields(r) == Len(run'[r].yields) = Len(run[r].yields) + 1

\* C1: in every call the store is written at most once, and only after the
\* last snapshot: a step that yields a snapshot finds the store not yet
\* written by the call and leaves it so, the write is the step that ends the
\* call, and the thread's record changes in no other step.
C1_PersistOnceAfterLastSnapshot ==
    [][\A r \in RunIds :
          /\ run'[r].writes <= 1
          /\ Yields(r) => run[r].writes = 0 /\ run'[r].writes = 0
          /\ run'[r].writes > run[r].writes => run'[r].pc = "done"
          /\ store'[run[r].thread] # store[run[r].thread] =>
                \E q \in RunIds : run'[q].writes = run[q].writes + 1]_vars
\* A call that returned after streaming snapshots and wrote the store once.
C1_Witness ==
    \E r \in RunIds :
        run[r].pc = "done" /\ run[r].writes = 1 /\ Len(run[r].yields) >= 3

\* C2: a call that failed, or that the caller closed before the sequence was
\* exhausted, wrote nothing: the thread's record (transcript and labels) is the
\* one found when the call was made, and a failure was raised to the caller.
C2_FailedOrCancelledLeavesStore ==
    \A r \in RunIds :
        run[r].pc \in {"failed", "cancelled"} =>
            /\ run[r].writes = 0
            /\ store[run[r].thread] = run[r].pre
            /\ run[r].pc = "failed" => run[r].raised
\* The engine failed after the assembler had yielded a snapshot.
C2_Witness ==
    \E r \in RunIds :
        /\ run[r].pc = "failed"
        /\ run[r].calls = 1
        /\ Len(run[r].yields) >= 2
        /\ run[r].transcript # run[r].pre.content

\* C3: after a main call with a non-empty query on a transcript of more than
\* 10 messages, the persisted transcript is the last 10 of them in their
\* order, then the user entry of the query, then the entries of this turn.
C3_MainKeepsLastTen ==
    \A r \in RunIds :
        (/\ run[r].pc = "done"
         /\ run[r].mode = "main"
         /\ run[r].callerQuery # <<>>
         /\ Len(run[r].pre.content) > MaxHistory) =>
            store[run[r].thread].content =
                LastN(run[r].pre.content, MaxHistory)
                \o <<UserEntry(run[r].callerQuery)>> \o run[r].emitted
\* Such a call, with entries emitted, whose first pre-existing message is gone.
C3_Witness ==
    \E r \in RunIds :
        /\ run[r].pc = "done"
        /\ run[r].mode = "main"
        /\ run[r].callerQuery # <<>>
        /\ Len(run[r].pre.content) > MaxHistory
        /\ Len(run[r].emitted) >= 2
        /\ \A i \in 1..Len(store[run[r].thread].content) :
              store[run[r].thread].content[i] # run[r].pre.content[1]

\* The entries a call adds: the echoed user entry, then the assembler's.
Added(rr) ==
    (IF rr.query # <<>> THEN <<UserEntry(rr.query)>> ELSE <<>>) \o rr.emitted

C5_PersistedIsLastSnapshot ==
    \A r \in RunIds :
        run[r].pc = "done" =>
            /\ store[run[r].thread].present
            /\ store[run[r].thread].content = run[r].yields[Len(run[r].yields)]
            /\ store[run[r].thread].source = run[r].pre.source
            /\ store[run[r].thread].group = run[r].pre.group
\* A call on a non-empty transcript that streamed snapshots and returned.
C5_Witness ==
    \E r \in RunIds :
        /\ run[r].pc = "done"
        /\ run[r].pre.content # <<>>
        /\ Len(run[r].yields) >= 2
        /\ store[run[r].thread].content # run[r].pre.content

\* C6: once the resolver has returned, the first snapshot yielded is its
\* transcript, and it is yielded before the engine is invoked: in every mode
\* a call past its first yield has yielded at least that snapshot.
C6_ViewYieldedFirst ==
    \A r \in RunIds :
        /\ run[r].yields # <<>> => run[r].yields[1] = run[r].view
        /\ (\/ run[r].calls > 0
            \/ run[r].pc \in {"stream", "step", "yielded", "persist", "done", "cancelled"})
              => run[r].yields # <<>>
\* The engine has just been invoked and only the resolver's view is out.
C6_Witness ==
    \E r \in RunIds :
        /\ run[r].pc = "step"
        /\ run[r].calls = 1
        /\ ~run[r].engine
        /\ run[r].yields = <<run[r].view>>
        /\ run[r].view # <<>>

\* C7: every snapshot after the first is the previous snapshot with exactly
\* one entry appended.
C7_SnapshotsGrowByOne ==
    \A r \in RunIds :
        \A i \in 2..Len(run[r].yields) :
            /\ Len(run[r].yields[i]) = Len(run[r].yields[i - 1]) + 1
            /\ SubSeq(run[r].yields[i], 1, Len(run[r].yields[i]) - 1)
                   = run[r].yields[i - 1]
\* Three snapshots after the first, on a non-empty view.
C7_Witness ==
    \E r \in RunIds :
        Len(run[r].yields) >= 4 /\ run[r].view # <<>>

\* The entries one processing of a message with fingerprint h can append: a
\* reasoning and a final entry for an assistant message, one for a tool result.
MaxEntriesOf(h) ==
    IF h[1] = "ai"
    THEN (IF separate_ai_messages(h[2])[1] # <<>> THEN 1 ELSE 0)
         + (IF separate_ai_messages(h[2])[2] # <<>> THEN 1 ELSE 0)
    ELSE IF h[1] = "tool" THEN 1 ELSE 0

\* C8: within a call, a (kind, content) pair that occurs in several cumulative
\* steps, or twice in one, is processed once and contributes the entries of
\* one processing at most.
C8_FingerprintEmittedOnce ==
    \A r \in RunIds :
        /\ \A i, j \in 1..Len(run[r].procLog) :
              run[r].procLog[i] = run[r].procLog[j] => i = j
        /\ \A k \in 1..Len(run[r].origins) :
              Cardinality({i \in 1..Len(run[r].origins) :
                              run[r].origins[i] = run[r].origins[k]})
                  <= MaxEntriesOf(run[r].origins[k])
\* The last step held two messages with one fingerprint, which was emitted.
C8_Witness ==
    \E r \in RunIds :
        /\ run[r].pc = "persist"
        /\ \E i, j \in (run[r].baseline + 1)..Len(run[r].step) :
              /\ i < j
              /\ msg_hash(run[r].step[i]) = msg_hash(run[r].step[j])
              /\ \E k \in 1..Len(run[r].origins) :
                    run[r].origins[k] = msg_hash(run[r].step[i])

\* C9: with an empty effective query the assembler yields nothing and the
\* engine is not invoked: the call yields the resolver's transcript only.
C9_EmptyQueryNoEngine ==
    \A r \in RunIds :
        (run[r].resolved /\ run[r].query = <<>>) =>
            /\ run[r].calls = 0
            /\ ~run[r].engine
            /\ run[r].emitted = <<>>
            /\ Len(run[r].yields) <= 1
            /\ run[r].pc = "done" => run[r].yields = <<run[r].view>>
\* A main call with nothing typed, on a non-empty transcript, that returned.
C9_Witness ==
    \E r \in RunIds :
        /\ run[r].pc = "done"
        /\ run[r].mode = "main"
        /\ run[r].query = <<>>
        /\ run[r].view # <<>>

\* C10: in undo mode, whatever the persisted history and the caller's query,
\* the effective query is empty, the engine is never invoked and the thread's
\* checkpoint stays as the call found it.
C10_UndoNeverInvokesEngine ==
    \A r \in RunIds :
        (run[r].resolved /\ run[r].mode = "undo") =>
            /\ run[r].query = <<>>
            /\ run[r].calls = 0
            /\ ws[run[r].thread] = run[r].preWs


\* What the resolver computes for the call in the run record rr, from the
\* record and checkpoint the call found.
Resolved(rr) ==
    update_current_state(rr.callerQuery, rr.pre, rr.mode, rr.edit_data, rr.preWs)

\* C11: whenever the engine is invoked in a main, retry or edit call, the
\* thread's checkpoint holds exactly the capped and truncated message list the
\* resolver computed in that call, whatever calls were made on the thread
\* before (undone, failed or closed calls included).
C11_EngineSeesResolvedList ==
    \A r \in RunIds :
        (/\ run[r].pc = "step"
         /\ ~run[r].engine
         /\ run[r].mode \in {"main", "retry", "edit"}) =>
            ws[run[r].thread].messages = Resolved(run[r]).convo


\* The capped history of the call in rr in the wire shape: the last 10
\* entries of the transcript the call found.
Capped(rr) == LastN(rr.pre.content, MaxHistory)
\* The positions of the user entries of a transcript, and the last of them.
UserPositions(h) == {i \in 1..Len(h) : h[i].role = "user"}
LastUser(h) == CHOOSE i \in UserPositions(h) : \A j \in UserPositions(h) : j <= i

FirstN(s, n) == SubSeq(s, 1, IF n < Len(s) THEN n ELSE Len(s))

\* C13 as stated: for edit with a payload on any non-empty capped history, the
\* truncated list is the first index entries of the capped list, the
\* effective query is the payload's value, and the transcript returned is the
\* truncated list followed by one user entry with that value.
C13_EditTruncatesAndEchoes ==
    \A r \in RunIds :
        (/\ run[r].resolved
         /\ run[r].mode = "edit"
         /\ run[r].edit_data.present
         /\ Capped(run[r]) # <<>>) =>
            LET truncated == FirstN(Capped(run[r]), run[r].edit_data.index)
            IN  /\ run[r].query = run[r].edit_data.value
                /\ run[r].view =
                      Append(truncated,
                             Entry("user", run[r].edit_data.value, UserMeta))
                /\ run[r].pc = "view" =>
                      ToTranscript(ws[run[r].thread].messages) = truncated

\* C13, amended: the user entry follows the truncated list when the value is
\* not empty; with an empty value the transcript returned is the truncated
\* list alone.
C13_EditTruncates ==
    \A r \in RunIds :
        (/\ run[r].resolved
         /\ run[r].mode = "edit"
         /\ run[r].edit_data.present
         /\ Capped(run[r]) # <<>>) =>
            LET truncated == FirstN(Capped(run[r]), run[r].edit_data.index)
                value == run[r].edit_data.value
            IN  /\ run[r].query = value
                /\ run[r].view =
                      truncated \o (IF value # <<>>
                                    THEN <<Entry("user", value, UserMeta)>>
                                    ELSE <<>>)
                /\ run[r].pc = "view" =>
                      ToTranscript(ws[run[r].thread].messages) = truncated
\* An edit of the third entry of a capped window resolved: two entries of the
\* window are kept and the new value follows them.
C13_Witness ==
    \E r \in RunIds :
        /\ run[r].pc = "view"
        /\ run[r].mode = "edit"
        /\ run[r].edit_data.present
        /\ run[r].edit_data.index = 2
        /\ Len(run[r].pre.content) > MaxHistory
        /\ run[r].view = <<Capped(run[r])[1], Capped(run[r])[2],
                          Entry("user", <<"new">>, UserMeta)>>


\* C14: a call in edit mode without an edit payload fails with an error raised
\* to the caller: it gets no further than the resolver, the engine is not
\* invoked and the store is not written.
C14_EditWithoutPayloadRaises ==
    \A r \in RunIds :
        (run[r].mode = "edit" /\ ~run[r].edit_data.present) =>
            /\ run[r].pc \in {"resolve", "failed"}
            /\ run[r].pc = "failed" => run[r].raised
            /\ run[r].calls = 0
            /\ run[r].writes = 0


\* The roles of the wire shape.
WireRoles == {"user", "assistant"}
\* Every entry of the transcript h has a role of the wire shape.
WireShaped(h) == \A i \in 1..Len(h) : h[i].role \in WireRoles

\* C19: every entry of every snapshot a call yields and of every transcript
\* in the store has role user or assistant; the entry made from a tool message
\* is an assistant entry titled "Tool call output".
C19_RolesUserOrAssistant ==
    /\ \A r \in RunIds :
          /\ \A i \in 1..Len(run[r].yields) : WireShaped(run[r].yields[i])
          /\ \A k \in 1..Len(run[r].emitted) :
                run[r].origins[k][1] = "tool" =>
                    /\ run[r].emitted[k].role = "assistant"
                    /\ <<"title", "Tool call output">> \in run[r].emitted[k].metadata
    /\ \A t \in ThreadIds : WireShaped(store[t].content)
\* A call that returned after a tool message was streamed: its entry is in the
\* last snapshot and in the store.
C19_Witness ==
    \E r \in RunIds :
        /\ run[r].pc = "done"
        /\ \E k \in 1..Len(run[r].emitted) :
              /\ run[r].origins[k][1] = "tool"
              /\ \E i \in 1..Len(store[run[r].thread].content) :
                    store[run[r].thread].content[i] = run[r].emitted[k]

\* The resolver of the call in slot r has just returned, and the transcript
\* it loaded was empty.
ResolvedOnEmpty(r) ==
    run[r].pc = "view" /\ run[r].pre.present /\ run[r].pre.content = <<>>

\* C20 as stated: when the thread's persisted transcript is empty the
\* resolver, in any mode, leaves the thread's checkpoint as it found it and
\* returns an empty transcript.
C20_EmptyHistoryEmptyView ==
    \A r \in RunIds :
        ResolvedOnEmpty(r) =>
            /\ ws[run[r].thread] = run[r].preWs
            /\ run[r].syncs = 0
            /\ run[r].view = <<>>

\* C20, amended: the checkpoint is left as found in any mode; the transcript
\* returned is empty when the resolver's query is empty, and otherwise holds
\* the user entry of that query and nothing else.
C20_EmptyHistoryNoSync ==
    \A r \in RunIds :
        ResolvedOnEmpty(r) =>
            /\ ws[run[r].thread] = run[r].preWs
            /\ run[r].syncs = 0
            /\ run[r].view =
                  IF run[r].query # <<>>
                  THEN <<Entry("user", run[r].query, UserMeta)>>
                  ELSE <<>>
\* An edit with a payload resolved on an empty transcript: the thread still
\* has no checkpoint and the transcript returned is the user entry alone.
C20_Witness ==
    \E r \in RunIds :
        /\ ResolvedOnEmpty(r)
        /\ run[r].mode = "edit"
        /\ run[r].edit_data.present
        /\ ~ws[run[r].thread].present
        /\ Len(run[r].view) = 1

\* The entry e occurs in the transcript h.
OccursIn(e, h) == \E i \in 1..Len(h) : h[i] = e

\* C21: after an undo call that returned, on a thread whose persisted
\* transcript held a user message, the last user message of that transcript
\* and every message after it are gone from the persisted transcript.
C21_UndoDeletesLastTurn ==
    \A r \in RunIds :
        (/\ run[r].pc = "done"
         /\ run[r].mode = "undo"
         /\ UserPositions(run[r].pre.content) # {}) =>
            \A i \in LastUser(run[r].pre.content)..Len(run[r].pre.content) :
                ~OccursIn(run[r].pre.content[i], store[run[r].thread].content)

\* C22: after an edit call that returned, with the payload's index i the
\* position (from 0) of the edited user message in the persisted transcript
\* T, whatever its length, the persisted transcript is the entries of T before
\* position i followed by what the call added: no entry of T at position i or
\* later is kept, and none before it is lost.
C22_EditKeepsEntriesBeforeIndex ==
    \A r \in RunIds :
        (/\ run[r].pc = "done"
         /\ run[r].mode = "edit"
         /\ run[r].edit_data.present
         /\ run[r].edit_data.index < Len(run[r].pre.content)
         /\ run[r].pre.content[run[r].edit_data.index + 1].role = "user") =>
            store[run[r].thread].content =
                SubSeq(run[r].pre.content, 1, run[r].edit_data.index)
                \o Added(run[r])

\* Where the message with fingerprint h first appears in the engine's
\* cumulative list of the call in rr, beyond the baseline.
FirstAppears(h, rr) ==
    Min({i \in (rr.baseline + 1)..Len(rr.step) : msg_hash(rr.step[i]) = h})

\* C23: the entries the assembler appended stand at the end of the
\* transcript in the order in which their source messages first appear in the
\* engine's cumulative lists; two entries come from one message only as the
\* reasoning entry immediately followed by the final-answer entry, and once
\* the assembler is through, a reasoning entry of a message with a final
\* answer is followed by that answer's entry.
C23_EntriesInEngineOrder ==
    \A r \in RunIds :
        LET rr == run[r]
            n  == Len(rr.emitted)
        IN  /\ rr.resolved => rr.transcript = rr.view \o rr.emitted
            /\ \A k, l \in 1..n :
                  k < l =>
                     /\ FirstAppears(rr.origins[k], rr) <= FirstAppears(rr.origins[l], rr)
                     /\ rr.origins[k] = rr.origins[l] =>
                           /\ l = k + 1
                           /\ rr.emitted[k].metadata = ThinkingMeta
                           /\ rr.emitted[l].metadata = AssistantMeta
            /\ rr.pc \in {"step", "persist", "done"} =>
                  \A k \in 1..n :
                     (/\ rr.emitted[k].metadata = ThinkingMeta
                      /\ separate_ai_messages(rr.origins[k][2])[2] # <<>>) =>
                         /\ k < n
                         /\ rr.origins[k + 1] = rr.origins[k]
                         /\ rr.emitted[k + 1] =
                               Entry("assistant",
                                     separate_ai_messages(rr.origins[k][2])[2],
                                     AssistantMeta)
\* A call that returned after an assistant message with both parts and a tool
\* result: reasoning, answer and tool output, in that order.
C23_Witness ==
    \E r \in RunIds :
        /\ run[r].pc = "done"
        /\ Len(run[r].emitted) = 3
        /\ run[r].emitted[1].metadata = ThinkingMeta
        /\ run[r].emitted[2].metadata = AssistantMeta
        /\ run[r].emitted[3].metadata = ToolMeta
        /\ run[r].view # <<>>

\* C24 (one call at a time on a thread): the baseline count of a call that
\* invoked the engine is the number of messages in the thread's checkpoint as
\* the resolver left it; the engine's cumulative list begins with those
\* messages; and every entry the assembler appended is an assistant entry that
\* comes from an assistant or tool message standing beyond the baseline: none
\* comes from the loaded history and none from the echo of the query.
C24_OnlyMessagesBeyondBaseline ==
    \A r \in RunIds :
        LET rr == run[r]
            left == Resolved(rr).checkpoint.messages
        IN  /\ rr.calls > 0 => rr.baseline = Len(left)
            /\ rr.engine =>
                  /\ SubSeq(rr.step, 1, rr.baseline) = left
                  /\ rr.step[rr.baseline + 1] = HumanMessage(rr.query, {})
                  /\ Len(rr.emitted) <= 2 * (Len(rr.step) - rr.baseline - 1)
            /\ \A k \in 1..Len(rr.emitted) :
                  /\ rr.emitted[k].role = "assistant"
                  /\ \E i \in (rr.baseline + 1)..Len(rr.step) :
                        /\ rr.step[i].type \in {"ai", "tool"}
                        /\ msg_hash(rr.step[i]) = rr.origins[k]
\* A main call on a loaded history returned with entries appended: the
\* history and the echo stand in the engine's list and gave no entry.
C24_Witness ==
    \E r \in RunIds :
        /\ run[r].pc = "done"
        /\ run[r].mode = "main"
        /\ run[r].baseline = MaxHistory
        /\ Len(run[r].step) = run[r].baseline + 1 + MaxMsgs
        /\ Len(run[r].emitted) >= 2

\* The entries one processing of the engine message m appends.
EntriesOf(m) ==
    IF m.type = "ai"
    THEN (IF separate_ai_messages(m.content)[1] # <<>>
          THEN <<Entry("assistant", separate_ai_messages(m.content)[1], ThinkingMeta)>>
          ELSE <<>>)
         \o (IF separate_ai_messages(m.content)[2] # <<>>
             THEN <<Entry("assistant", separate_ai_messages(m.content)[2], AssistantMeta)>>
             ELSE <<>>)
    ELSE IF m.type = "tool"
    THEN <<Entry("assistant",
                 <<NL, "Content from", m.name, "toolcall:", NL>> \o m.content,
                 ToolMeta)>>
    ELSE <<>>
\* The set of the elements of a sequence.
Range(s) == {s[i] : i \in 1..Len(s)}

\* C28: when the engine's list of a call holds, beyond the baseline, two
\* assistant messages or two tool results with the same content (from
\* different tools or not), then once the assembler is through only the
\* earlier one has entries in the transcript: the later one's entries are not
\* appended a second time, and a later tool result's own entry (with its
\* tool's name) is not among the entries the call adds to the transcript,
\* which is what the write stores.
C28_SameKindSameContentOnce ==
    \A r \in RunIds :
        LET rr == run[r]
        IN  rr.pc \in {"persist", "done"} =>
              \A i, j \in (rr.baseline + 1)..Len(rr.step) :
                 (/\ i < j
                  /\ rr.step[i].type \in {"ai", "tool"}
                  /\ rr.step[i].type = rr.step[j].type
                  /\ rr.step[i].content = rr.step[j].content
                  /\ \A h \in (rr.baseline + 1)..(i - 1) :
                        ~(/\ rr.step[h].type = rr.step[i].type
                          /\ rr.step[h].content = rr.step[i].content)) =>
                    /\ Cardinality({k \in 1..Len(rr.emitted) :
                                       rr.emitted[k] \in Range(EntriesOf(rr.step[i]))})
                          = Len(EntriesOf(rr.step[i]))
                    /\ \A e \in Range(EntriesOf(rr.step[j])) \ Range(EntriesOf(rr.step[i])) :
                          ~OccursIn(e, rr.emitted)
                    /\ rr.transcript = rr.view \o rr.emitted
                    /\ rr.pc = "done" => store[rr.thread].content = rr.transcript
\* A call returned after two tools gave the same result: the transcript and
\* the store hold the first tool's entry and not the second's.
C28_Witness ==
    \E r \in RunIds :
        LET rr == run[r]
        IN  /\ rr.pc = "done"
            /\ Len(rr.step) = rr.baseline + 3
            /\ rr.step[rr.baseline + 2] = ToolMessage(<<"res">>, "search")
            /\ rr.step[rr.baseline + 3] = ToolMessage(<<"res">>, "retrieve")
            /\ OccursIn(EntriesOf(rr.step[rr.baseline + 2])[1], store[rr.thread].content)
            /\ ~OccursIn(EntriesOf(rr.step[rr.baseline + 3])[1], store[rr.thread].content)

\* C29: a call on a thread id without a persisted record fails in the
\* resolver: an error is raised to the caller before any snapshot is yielded,
\* the thread's checkpoint is not written, the engine is not invoked and no
\* record is created for the thread id.
C29_NoRecordFailsInResolver ==
    \A r \in RunIds :
        (run[r].pc \notin {"idle", "resolve"} /\ ~run[r].pre.present) =>
            /\ run[r].pc = "failed"
            /\ run[r].raised
            /\ ~run[r].resolved
            /\ run[r].yields = <<>>
            /\ run[r].syncs = 0
            /\ ws[run[r].thread] = run[r].preWs
            /\ run[r].calls = 0
            /\ run[r].writes = 0
            /\ ~store[run[r].thread].present
\* A call with text typed on the thread id t0, failed.
C29_Witness ==
    \E r \in RunIds :
        /\ run[r].pc = "failed"
        /\ run[r].thread = "t0"
        /\ run[r].callerQuery # <<>>
        /\ ~store["t0"].present

\* C30: a main call with an empty query that returned invoked no engine and
\* added no entry, yet wrote the store once: the persisted transcript is now
\* the last (at most 10) entries of the one found, the older ones dropped.
C30_EmptyMainStillWritesCapped ==
    \A r \in RunIds :
        (/\ run[r].pc = "done"
         /\ run[r].mode = "main"
         /\ run[r].callerQuery = <<>>) =>
            /\ run[r].calls = 0
            /\ run[r].emitted = <<>>
            /\ run[r].writes = 1
            /\ store[run[r].thread].content = LastN(run[r].pre.content, MaxHistory)
\* Such a call on a transcript of more than 10 entries: the first entries
\* found are no longer in the store.
C30_Witness ==
    \E r \in RunIds :
        /\ run[r].pc = "done"
        /\ run[r].mode = "main"
        /\ run[r].callerQuery = <<>>
        /\ Len(run[r].pre.content) > MaxHistory
        /\ Len(store[run[r].thread].content) = MaxHistory
        /\ ~OccursIn(run[r].pre.content[1], store[run[r].thread].content)

\* An undo call in slot r returned, made right after a main call with a
\* non-empty query that returned.
UndoAfterMain(r) ==
    /\ run[r].pc = "done"
    /\ run[r].mode = "undo"
    /\ run[r].prev.pc = "done"
    /\ run[r].prev.mode = "main"
    /\ run[r].prev.callerQuery # <<>>

\* C27 as stated: a main call with a non-empty query and then an undo call,
\* both returned, leave the persisted transcript equal to the last 10 entries
\* of the transcript the main call found.
C27_UndoAfterMainRestoresCapped ==
    \A r \in RunIds :
        UndoAfterMain(r) =>
            store[run[r].thread].content =
                LastN(run[r].prev.pre.content, MaxHistory)

\* C27, amended: with n the number of entries the main call added (its user
\* entry included, n at most 10), the undo leaves the last 10 - n entries of
\* the transcript the main call found, the undo's own cap having cut the
\* older ones; that is the whole transcript found when it and the turn
\* together have at most 10 entries.
C27_UndoAfterMainKeepsWindowRest ==
    \A r \in RunIds :
        (UndoAfterMain(r) /\ Len(run[r].prev.added) <= MaxHistory) =>
            /\ store[run[r].thread].content =
                  LastN(run[r].prev.pre.content,
                        MaxHistory - Len(run[r].prev.added))
            /\ Len(run[r].prev.pre.content) + Len(run[r].prev.added) <= MaxHistory
                  => store[run[r].thread].content = run[r].prev.pre.content
\* Undo after a main call that added a turn of three entries or more to a
\* transcript of more than 10: fewer than 10 of the entries found are left.
C27_Witness ==
    \E r \in RunIds :
        /\ UndoAfterMain(r)
        /\ Len(run[r].prev.pre.content) > MaxHistory
        /\ Len(run[r].prev.added) >= 3
        /\ store[run[r].thread].content # <<>>
        /\ Len(store[run[r].thread].content) < MaxHistory

\* ------------------------------------------------ claims on calls in flight
\* The slot other than r, and whether the calls of the two slots are on
\* different threads.
Other(r) == CHOOSE q \in RunIds : q # r
OnOtherThreads(r) ==
    run[Other(r)].pc = "idle" \/ run[Other(r)].thread # run[r].thread
\* What the call in rr resolves to when it is the only call made: the resolver
\* reads the record the thread began with and finds no checkpoint.
Alone(rr) ==
    update_current_state(rr.callerQuery, ConcStore[rr.thread], rr.mode,
                         rr.edit_data, NoCheckpoint)

\* C25: with calls in flight on different threads, a step of a call changes
\* the persisted record (transcript, source and group) and the checkpoint of
\* no thread but its own; the engine of each call sees what it would see were
\* the call made alone; and the record a call writes is the one it would
\* write alone: the transcript resolved from the record the thread began
\* with, then the entries the assembler appended, under the labels the thread
\* began with.
C25_OtherThreadsUntouched ==
    [][\A r \in RunIds :
          (run'[r] # run[r] /\ run'[r].pc # "idle") =>
             LET rr == run'[r]
                 t  == rr.thread
             IN  /\ \A u \in ThreadIds \ {t} :
                       store'[u] = store[u] /\ ws'[u] = ws[u]
                 /\ (rr.thread # run'[Other(r)].thread \/ run'[Other(r)].pc = "idle") =>
                       /\ rr.resolved =>
                             /\ rr.pre = ConcStore[t]
                             /\ rr.view = Alone(rr).transcript
                       /\ rr.engine =>
                             SubSeq(rr.step, 1, rr.baseline + 1) =
                                Append(Alone(rr).checkpoint.messages,
                                       HumanMessage(rr.query, {}))
                       /\ rr.pc = "done" =>
                             store'[t] =
                                update_thread_history(ConcStore[t],
                                    Alone(rr).transcript \o rr.emitted,
                                    ConcStore[t].group, ConcStore[t].source)
      ]_vars
\* A call on t1 returned with entries appended while a call on t2, past its
\* engine's replies, is about to write: both threads keep their own
\* transcript.
C25_Witness ==
    /\ run[1].pc = "done" /\ run[1].thread = "t1" /\ run[1].emitted # <<>>
    /\ run[2].pc = "persist" /\ run[2].thread = "t2" /\ run[2].emitted # <<>>
    /\ store["t2"] = ConcStore["t2"]
    /\ store["t1"].content # ConcStore["t1"].content

\* The step in which the call of slot r writes the store after the call of
\* the other slot has written it, both main calls on one thread that resolved
\* the same persisted record: neither had written when the other resolved.
SecondWrite(r) ==
    LET rr == run[r]
        oo == run[Other(r)]
    IN  /\ rr.pc = "persist" /\ run'[r].pc = "done"
        /\ oo.pc = "done"
        /\ rr.mode = "main" /\ oo.mode = "main"
        /\ rr.thread = oo.thread
        /\ rr.pre = oo.pre
\* The last snapshot the call in rr yielded.
FinalSnapshot(rr) == rr.yields[Len(rr.yields)]
\* Where the message the call in rr submitted stands in its engine's list.
OwnHumanPos(rr) ==
    CHOOSE i \in 1..Len(rr.step) :
        /\ rr.step[i] = HumanMessage(rr.query, {})
        /\ \A j \in (i + 1)..Len(rr.step) : rr.step[j] # HumanMessage(rr.query, {})
\* Every entry the assembler of the call in rr appended is made from a message
\* that stands after the one the call submitted: a reply generated for this
\* call.
NoForeignReply(rr) ==
    \A k \in 1..Len(rr.emitted) :
        \E i \in (OwnHumanPos(rr) + 1)..Len(rr.step) :
            msg_hash(rr.step[i]) = rr.origins[k]

Arg == CHOOSE t \in text : TRUE
\* The positions of the openers of a text; whether it has a closed block (an
\* opener with a closer somewhere after it).
Openers(t) == {i \in 1..Len(t) : t[i] = OpenTag}
HasClosed(t) == \E i \in Openers(t) : \E j \in (i + 1)..Len(t) : t[j] = CloseTag
\* A text from position from on with its closed blocks cut out, left to
\* right, and nothing else: each block runs from the leftmost opener that a
\* closer follows to the nearest such closer.
RECURSIVE WithoutClosed(_, _)
WithoutClosed(t, from) ==
    LET i == SearchClosed(t, from)[1]
        j == SearchClosed(t, from)[2]
    IN  IF i = 0 THEN SubSeq(t, from, Len(t))
        ELSE SubSeq(t, from, i - 1) \o WithoutClosed(t, j + 1)

\* C15: for every text with a closed block, the reasoning is the trimmed
\* content of the first closed block and the final text is the input with
\* every closed block removed, trimmed: whatever lies outside the closed
\* blocks (text, whitespace between words, unmatched tags) is kept as it is.
C15_ClosedBlocksRemovedOnly ==
    (sep.state = "returned" /\ HasClosed(Arg)) =>
        LET i == Min({k \in Openers(Arg) :
                        \E j \in (k + 1)..Len(Arg) : Arg[j] = CloseTag})
            j == Min({k \in (i + 1)..Len(Arg) : Arg[k] = CloseTag})
        IN  /\ sep.inside = Strip(SubSeq(Arg, i + 1, j - 1))
            /\ sep.outside = Strip(WithoutClosed(Arg, 1))

\* The content after the first opener of a text.
AfterOpener(t) == SubSeq(t, Min(Openers(t)) + 1, Len(t))
\* The positions of the newlines of a text.
Newlines(t) == {i \in 1..Len(t) : t[i] = NL}

\* C16 as stated: for every text with an opener and no closed block, the
\* content after the tag is split at its first newline; with a newline the
\* reasoning is the trimmed first line and the final text the trimmed rest,
\* without one the reasoning is empty and the final text the trimmed content.
C16_UnclosedSplitsContent ==
    (sep.state = "returned" /\ Openers(Arg) # {} /\ ~HasClosed(Arg)) =>
        LET c == AfterOpener(Arg)
        IN  IF Newlines(c) # {}
            THEN /\ sep.inside = Strip(SubSeq(c, 1, Min(Newlines(c)) - 1))
                 /\ sep.outside = Strip(SubSeq(c, Min(Newlines(c)) + 1, Len(c)))
            ELSE /\ sep.inside = <<>>
                 /\ sep.outside = Strip(c)

\* C16, amended: the content after the tag is trimmed first, and the trimmed
\* content is split at its first newline.
C16_UnclosedSplitsTrimmedContent ==
    (sep.state = "returned" /\ Openers(Arg) # {} /\ ~HasClosed(Arg)) =>
        LET c == Strip(AfterOpener(Arg))
        IN  IF Newlines(c) # {}
            THEN /\ sep.inside = Strip(SubSeq(c, 1, Min(Newlines(c)) - 1))
                 /\ sep.outside = Strip(SubSeq(c, Min(Newlines(c)) + 1, Len(c)))
            ELSE /\ sep.inside = <<>>
                 /\ sep.outside = Strip(c)
\* An unclosed opener followed by a newline, a line, a newline and more: the
\* line is the reasoning and what follows it is the final text.
C16_Witness ==
    /\ sep.state = "returned"
    /\ Openers(Arg) # {}
    /\ ~HasClosed(Arg)
    /\ AfterOpener(Arg) # <<>>
    /\ AfterOpener(Arg)[1] = NL
    /\ sep.inside # <<>>
    /\ sep.outside # <<>>

\* C17: for every text without an opener, a stray closer or not, the
\* reasoning is empty and the final text is the text as given: not trimmed,
\* the closer not removed.
C17_NoOpenerUnchanged ==
    (sep.state = "returned" /\ Openers(Arg) = {}) =>
        /\ sep.inside = <<>>
        /\ sep.outside = Arg
\* A text that begins with whitespace and holds a stray closer, returned whole.
C17_Witness ==
    /\ sep.state = "returned"
    /\ Openers(Arg) = {}
    /\ \E i \in 1..Len(Arg) : Arg[i] = CloseTag
    /\ Arg[1] \in Whitespace
    /\ sep.outside = Arg

\* C18: the separator returns a pair for every str and raises ValueError for
\* None.
C18_TotalOnStrings ==
    sep.state # "ready" =>
        /\ text # None => sep.state = "returned"
        /\ text = None => sep.state = "raised"
\* The call on None, raised.
C18_Witness ==
    text = None /\ sep.state = "raised"

====
